---------------------------- MODULE Spec2Model ----------------------------
(***************************************************************************)
(* pylascontrol: load_budget_excel (matrix sheet -> long-format records)   *)
(* and plot_chart_by_type (per-month aggregation + one chart).             *)
(*                                                                         *)
(* Conventions of the model                                                *)
(*  - A Python str is a sequence of tokens; the token " " is a run of      *)
(*    whitespace, every other token is a run of non-whitespace characters. *)
(*    "Despesas totais" is <<"Despesas", " ", "totais">>.                  *)
(*  - A cell of the sheet is a record [t, v, s]: t = "nan" (missing),      *)
(*    t = "num" (number v) or t = "str" (text s).  Amounts are integers.   *)
(*  - Python's None is the empty sequence, a present value x is <<x>>.     *)
(*  - Rows are numbered from 0 as in the source; a row is a function from  *)
(*    column names to cells.  The rows after row 0 are drawn when          *)
(*    df.iterrows() yields them.                                           *)
(***************************************************************************)
EXTENDS Integers, Sequences, FiniteSets, TLC

\* ------------------------------------------------------------------ bounds
MaxRows == 3      \* rows of the sheet, row 0 included
MaxCols == 3      \* columns of the sheet, the label column included
MaxRecs == 2      \* rows of a table handed directly to plot_chart_by_type

\* ---------------------------------------------------------- basic values
None == <<>>
Some(x) == <<x>>

WS == " "

Nan == [t |-> "nan", v |-> 0, s |-> <<>>]
Num(n) == [t |-> "num", v |-> n, s |-> <<>>]
Txt(str) == [t |-> "str", v |-> 0, s |-> str]

Min(a, b) == IF a <= b THEN a ELSE b

Range(f) == {f[k] : k \in DOMAIN f}

\* ----------------------------------------------------- module constants
MONTHS_MAP ==
    (<<"JAN">> :> 1) @@ (<<"FEV">> :> 2) @@ (<<"MAR">> :> 3) @@
    (<<"ABR">> :> 4) @@ (<<"MAIO">> :> 5) @@ (<<"JUN">> :> 6) @@
    (<<"JUL">> :> 7) @@ (<<"AGO">> :> 8) @@ (<<"SET">> :> 9) @@
    (<<"OUT">> :> 10) @@ (<<"NOV">> :> 11) @@ (<<"DEZ">> :> 12)

LABELS_TO_IGNORE ==
    { <<"RECEITA">>, <<"DESPESAS">>, <<"DOMÉSTICAS">>, <<"Cotidiano">>,
      <<"TRANSPORTE">>, <<"ENTRETENIMENTO">>, <<"SAÚDE">>, <<"FÉRIAS">>,
      <<"LAZER">>, <<"MENSALIDADES">>, <<"PESSOAIS">>,
      <<"OBRIGAÇÕES", WS, "FINANCEIRAS">>, <<"APORTES">>,
      <<"Total">>, <<"TOTAIS">>, <<"Despesas", WS, "totais">>,
      <<"Diferença", WS, "de", WS, "caixa">>, <<"nan">> }

\* the set literal of the group-change test
GroupHeaders ==
    { <<"RECEITA">>, <<"DOMÉSTICAS">>, <<"Cotidiano">>, <<"TRANSPORTE">>,
      <<"ENTRETENIMENTO">>, <<"SAÚDE">>, <<"FÉRIAS">>, <<"LAZER">>,
      <<"MENSALIDADES">>, <<"PESSOAIS">>,
      <<"OBRIGAÇÕES", WS, "FINANCEIRAS">>, <<"APORTES">> }

LabelColumn == "Unnamed: 0"

\* df.columns[1:13] and df.iloc[0, 1:13]: the stop of the slice
SliceStop == 13

\* keys of the dict appended to registros, in insertion order
RecordKeys == <<"ano", "mes", "tipo", "grupo", "categoria", "valor">>

\* ------------------------------------------------------- input alphabets
\* names pandas gives the columns of a sheet whose first line is blank
ColumnNames ==
    << "Unnamed: 0", "Unnamed: 1", "Unnamed: 2", "Unnamed: 3", "Unnamed: 4",
       "Unnamed: 5", "Unnamed: 6", "Unnamed: 7", "Unnamed: 8", "Unnamed: 9",
       "Unnamed: 10", "Unnamed: 11", "Unnamed: 12", "Unnamed: 13" >>

\* name of the first column when the sheet's first line has text in A1
OtherFirstColumn == "Categoria"

\* year: int = 2025
DefaultYear == 2025

Years == {DefaultYear - 1, DefaultYear}

\* cells of column 0
LabelCells ==
    { Txt(<<"RECEITA">>), Txt(<<"APORTES">>), Txt(<<"TRANSPORTE">>),
      Txt(<<"Total">>), Nan, Txt(<<WS>>), Txt(<<WS, "Salário", WS>>) }

\* cells of column 0 in row 0
HeadLabelCells == { Nan, Txt(<<"RECEITA">>), Txt(<<"Mês">>) }

\* month codes of row 0: the k-th month column holds the code of month k or
\* a code the table does not know
SheetCodes ==
    << "JAN", "FEV", "MAR", "ABR", "MAIO", "JUN", "JUL", "AGO", "SET", "OUT",
       "NOV", "DEZ", "JAN" >>

UnknownCode == "jan"

CodeCells(k) == { Txt(<<SheetCodes[k]>>), Txt(<<UnknownCode>>) }

\* month cells of the rows after row 0
ValueCells == { Nan, Num(0), Num(850) }

\* --------------------------------------------------------------- state
VARIABLES
    columns,        \* df.columns
    nrows,          \* len(df)
    head,           \* df.iloc[0], the row of the month codes
    year,           \* argument year of load_budget_excel
    pc,             \* "read", "scan", "returned", "raised", "plotted"
    mes_cols,       \* df.columns[1:13]
    meses_siglas,   \* column name -> code cell of row 0
    i,              \* index of the next row df.iterrows() yields
    grupo_atual,
    registros,
    labels,         \* history: label of every row scanned so far
    origin,         \* history: <<row, k>> of the cell each record came from
    valores,        \* history: the month cells of the category row just scanned
    df_long,        \* the DataFrame load_budget_excel returned
    error,          \* the exception raised, None if none
    plot_args,      \* arguments <<year, type>> of the plot call
    base,           \* the aggregated table of plot_chart_by_type
    shown           \* chart types passed to plt.show(), in call order

vars == << columns, nrows, head, year, pc, mes_cols, meses_siglas, i,
           grupo_atual, registros, labels, origin, valores, df_long, error,
           plot_args, base, shown >>

loadVars == << columns, nrows, head, year, mes_cols, meses_siglas, i,
               grupo_atual, registros, labels, origin, valores >>

plotVars == << plot_args, base, shown >>

\* raise exc(msg)
Raised(exc, msg) == Some([exc |-> exc, msg |-> msg])

\* ------------------------------------------------------ str and strip()
RECURSIVE LStrip(_)
LStrip(str) ==
    IF str # <<>> /\ Head(str) = WS THEN LStrip(Tail(str)) ELSE str

RECURSIVE RStrip(_)
RStrip(str) ==
    IF str # <<>> /\ str[Len(str)] = WS
    THEN RStrip(SubSeq(str, 1, Len(str) - 1))
    ELSE str

Strip(str) == RStrip(LStrip(str))

\* str(x) of a cell: a missing cell is the float nan; the digits of a number
\* are one token, which is no label of the sets below
Str(cell) ==
    CASE cell.t = "nan" -> <<"nan">>
      [] cell.t = "str" -> cell.s
      [] cell.t = "num" -> <<"<decimal>">>

\* row.get(key, default)
RowGet(row, key, default) ==
    IF key \in DOMAIN row THEN row[key] ELSE default

\* label = str(row.get("Unnamed: 0", "")).strip()
Label(row) == Strip(Str(RowGet(row, LabelColumn, Txt(<<>>))))

\* ------------------------------------------------------ the month cells
IsNa(cell) == cell.t = "nan"

\* float(valor) raises ValueError on text that is no number
FloatRaises(cell) == cell.t = "str"

Float(cell) == cell.v

IsZeroNever(cell) == FALSE

\* float(valor) == 0
IsZero(cell) == Float(cell) = 0

MonthsMapGetAnyCase(cell) ==
    IF cell.t = "str" /\ cell.s \in DOMAIN MONTHS_MAP
    THEN Some(MONTHS_MAP[cell.s])
    ELSE IF cell = Txt(<<UnknownCode>>) THEN Some(MONTHS_MAP[<<"JAN">>])
    ELSE None

\* MONTHS_MAP.get(mes_sigla)
MonthsMapGet(cell) ==
    IF cell.t = "str" /\ cell.s \in DOMAIN MONTHS_MAP
    THEN Some(MONTHS_MAP[cell.s])
    ELSE None

TipoNoAporte(grupo) ==
    IF grupo = Some(<<"RECEITA">>) THEN "receita" ELSE "despesa"

Tipo(grupo) ==
    IF grupo = Some(<<"RECEITA">>) THEN "receita"
    ELSE IF grupo = Some(<<"APORTES">>) THEN "aporte"
    ELSE "despesa"

\* df.columns[1:13]
MesCols(cols) == SubSeq(cols, 2, Min(Len(cols), SliceStop))

HeaderErrorStrict(cols, n) ==
    IF n = 0 \/ Len(cols) < SliceStop THEN Raised("IndexError", <<>>) ELSE None

\* the exception df.iloc[0, 1:13] raises, None if none
HeaderError(cols, n) ==
    IF n = 0 THEN Raised("IndexError", <<>>) ELSE None

RegistroDefaultYear(cell, k, label, grupo, siglas, cols, yr) ==
    [ ano |-> DefaultYear,
      mes |-> MonthsMapGet(siglas[cols[k]]),
      tipo |-> Tipo(grupo),
      grupo |-> grupo,
      categoria |-> label,
      valor |-> Float(cell) ]

\* the dict appended for the cell of column mes_cols[k]
Registro(cell, k, label, grupo, siglas, cols, yr) ==
    [ ano |-> yr,
      mes |-> MonthsMapGet(siglas[cols[k]]),
      tipo |-> Tipo(grupo),
      grupo |-> grupo,
      categoria |-> label,
      valor |-> Float(cell) ]

\* the loop over mes_cols from position k on, for one category row
RECURSIVE ScanCols(_, _, _, _, _, _, _, _)
ScanCols(row, k, acc, label, grupo, siglas, cols, yr) ==
    IF k > Len(cols) THEN acc
    ELSE LET valor == row[cols[k]] IN
         IF IsNa(valor)
         THEN ScanCols(row, k + 1, acc, label, grupo, siglas, cols, yr)
         ELSE IF FloatRaises(valor)
         THEN [acc EXCEPT !.err = Raised("ValueError", Str(valor))]
         ELSE IF IsZero(valor)
         THEN ScanCols(row, k + 1, acc, label, grupo, siglas, cols, yr)
         ELSE ScanCols(row, k + 1,
                       [acc EXCEPT
                          !.regs = Append(@, Registro(valor, k, label, grupo,
                                                      siglas, cols, yr)),
                          !.from = Append(@, k)],
                       label, grupo, siglas, cols, yr)

\* pd.DataFrame(registros): the columns are the keys of the dicts
DataFrame(regs) ==
    [ columns |-> IF regs = <<>> THEN <<>> ELSE RecordKeys,
      rows |-> regs ]

\* ------------------------------------------------- load_budget_excel
Columns(n, first) == [k \in 1..n |-> IF k = 1 THEN first ELSE ColumnNames[k]]

\* the rows a sheet with the given columns can have at index 0
HeadRows(cols) ==
    { [c \in Range(cols) |-> IF c = cols[1] THEN l ELSE m[c]] :
        l \in HeadLabelCells,
        m \in { f \in [Range(Tail(cols)) -> UNION {CodeCells(k) : k \in 1..Len(cols)}] :
                 \A k \in 2..Len(cols) : f[cols[k]] \in CodeCells(k - 1) } }

NoTable == [columns |-> <<>>, rows |-> <<>>]
NoBase == <<>>

Init ==
    /\ \E n \in 1..MaxCols, first \in {LabelColumn, OtherFirstColumn} :
          columns = Columns(n, first)
    /\ nrows \in 0..MaxRows
    /\ IF nrows = 0 THEN head = <<>>
       ELSE head \in HeadRows(columns)
    /\ year \in Years
    /\ pc = "read"
    /\ mes_cols = <<>>
    /\ meses_siglas = <<>>
    /\ i = 0
    /\ grupo_atual = None
    /\ registros = <<>>
    /\ labels = <<>>
    /\ origin = <<>>
    /\ valores = <<>>
    /\ df_long = NoTable
    /\ error = None
    /\ plot_args = <<>>
    /\ base = NoBase
    /\ shown = <<>>

\* lines 52-61, df.iloc[0, 1:13] succeeds
ReadExcel ==
    /\ pc = "read"
    /\ HeaderError(columns, nrows) = None
    /\ mes_cols' = MesCols(columns)
    /\ meses_siglas' = [c \in Range(MesCols(columns)) |-> head[c]]
    /\ pc' = "scan"
    /\ UNCHANGED << columns, nrows, head, year, i, grupo_atual, registros,
                    labels, origin, valores, df_long, error >>
    /\ UNCHANGED plotVars

\* lines 52-58, df.iloc[0, 1:13] raises
ReadExcelRaises ==
    /\ pc = "read"
    /\ HeaderError(columns, nrows) # None
    /\ error' = HeaderError(columns, nrows)
    /\ mes_cols' = MesCols(columns)
    /\ pc' = "raised"
    /\ UNCHANGED << columns, nrows, head, year, meses_siglas, i, grupo_atual,
                    registros, labels, origin, valores, df_long >>
    /\ UNCHANGED plotVars

\* column 0 of the rows df.iterrows() can yield at index k
LabelRowsAt(k) ==
    IF k = 0 THEN {[c \in {columns[1]} |-> head[c]]}
    ELSE {[c \in {columns[1]} |-> l] : l \in LabelCells}

\* the month cells of the rows df.iterrows() can yield at index k; they are
\* read (row[col]) for a category row only
MonthCellsAt(k) ==
    IF k = 0 THEN {[c \in Range(mes_cols) |-> head[c]]}
    ELSE [Range(mes_cols) -> ValueCells]

\* lines 63-73: a row whose label is a group header
RowGroupHeader ==
    /\ pc = "scan"
    /\ i < nrows
    /\ \E row \in LabelRowsAt(i) :
          /\ Label(row) \in GroupHeaders
          /\ grupo_atual' = Some(Label(row))
          /\ labels' = Append(labels, Label(row))
    /\ i' = i + 1
    /\ valores' = <<>>
    /\ UNCHANGED << columns, nrows, head, year, pc, mes_cols, meses_siglas,
                    registros, origin, df_long, error >>
    /\ UNCHANGED plotVars

RowIgnoredResetsGroup ==
    /\ pc = "scan"
    /\ i < nrows
    /\ \E row \in LabelRowsAt(i) :
          /\ Label(row) \notin GroupHeaders
          /\ Label(row) \in LABELS_TO_IGNORE \/ Label(row) = <<>>
          /\ labels' = Append(labels, Label(row))
    /\ i' = i + 1
    /\ valores' = <<>>
    /\ grupo_atual' = None
    /\ UNCHANGED << columns, nrows, head, year, pc, mes_cols, meses_siglas,
                    registros, origin, df_long, error >>
    /\ UNCHANGED plotVars

\* lines 63-77: a row that is skipped
RowIgnored ==
    /\ pc = "scan"
    /\ i < nrows
    /\ \E row \in LabelRowsAt(i) :
          /\ Label(row) \notin GroupHeaders
          /\ Label(row) \in LABELS_TO_IGNORE \/ Label(row) = <<>>
          /\ labels' = Append(labels, Label(row))
    /\ i' = i + 1
    /\ valores' = <<>>
    /\ UNCHANGED << columns, nrows, head, year, pc, mes_cols, meses_siglas,
                    grupo_atual, registros, origin, df_long, error >>
    /\ UNCHANGED plotVars

\* lines 63-99: a category row; float(valor) may raise
RowCategory ==
    /\ pc = "scan"
    /\ i < nrows
    /\ \E first \in LabelRowsAt(i) :
          /\ Label(first) \notin GroupHeaders
          /\ ~(Label(first) \in LABELS_TO_IGNORE \/ Label(first) = <<>>)
          /\ \E cells \in MonthCellsAt(i) :
                LET row == first @@ cells
                    label == Label(row)
                    out == ScanCols(row, 1,
                                    [regs |-> <<>>, from |-> <<>>, err |-> None],
                                    label, grupo_atual, meses_siglas, mes_cols,
                                    year)
                IN  /\ labels' = Append(labels, label)
                    /\ valores' = cells
                    /\ registros' = registros \o out.regs
                    /\ origin' = origin \o
                          [k \in 1..Len(out.from) |-> <<i, out.from[k]>>]
                    /\ error' = out.err
                    /\ IF out.err = None
                       THEN pc' = "scan" /\ i' = i + 1
                       ELSE pc' = "raised" /\ i' = i
    /\ UNCHANGED << columns, nrows, head, year, mes_cols, meses_siglas,
                    grupo_atual, df_long >>
    /\ UNCHANGED plotVars

\* line 101
Return ==
    /\ pc = "scan"
    /\ i = nrows
    /\ df_long' = DataFrame(registros)
    /\ pc' = "returned"
    /\ UNCHANGED loadVars
    /\ UNCHANGED << error >>
    /\ UNCHANGED plotVars

\* ------------------------------------------------- plot_chart_by_type
ChartTypes == {"line", "bar", "saldo", "oops"}

\* columns the aggregation reads: df["ano"], groupby(["mes", "tipo"])["valor"]
AggregatedKeys == {"ano", "mes", "tipo", "valor"}

RECURSIVE SumValor(_)
SumValor(rows) ==
    IF rows = <<>> THEN 0 ELSE Head(rows).valor + SumValor(Tail(rows))

FilterYearNone(rows, yr) == rows

\* df[df["ano"] == year]
FilterYear(rows, yr) == SelectSeq(rows, LAMBDA r : r.ano = yr)

\* .groupby(["mes", "tipo"])["valor"].sum().unstack(fill_value=0): groupby
\* drops the rows whose key is null; the index is the months that occur, the
\* columns the types that occur
GroupSum(rows) ==
    LET keyed == SelectSeq(rows, LAMBDA r : r.mes # None)
        index == {r.mes[1] : r \in Range(keyed)}
        tipos == {r.tipo : r \in Range(keyed)}
        cell(m, t) == SelectSeq(keyed, LAMBDA r : r.mes[1] = m /\ r.tipo = t)
    IN  [m \in index |->
            [t \in tipos |-> IF cell(m, t) = <<>> THEN 0
                                                   ELSE SumValor(cell(m, t))]]

TableColumns(table) == UNION {DOMAIN table[m] : m \in DOMAIN table}

\* if name not in base.columns: base[name] = 0.0
EnsureColumn(table, name) ==
    IF name \in TableColumns(table) THEN table
    ELSE [m \in DOMAIN table |-> table[m] @@ (name :> 0)]

\* base["saldo"] = base["receita"] - base["despesa"]
WithSaldo(table) ==
    [m \in DOMAIN table |->
        ("saldo" :> table[m]["receita"] - table[m]["despesa"]) @@ table[m]]

\* lines 121-135
Aggregate(rows, yr) ==
    WithSaldo(EnsureColumn(EnsureColumn(GroupSum(FilterYear(rows, yr)),
                                        "receita"), "despesa"))

\* the chart drawn for a type, None when no branch matches
ChartFor(type) ==
    IF type = "line" THEN Some("line")
    ELSE IF type = "bar" THEN Some("bar")
    ELSE IF type = "saldo" THEN Some("saldo")
    ELSE None

\* f"chart_type inválido: {type!r}. Use 'line', 'bar' ou 'saldo'."
InvalidTypeMessage(type) ==
    << "chart_type", WS, "inválido:", WS, "'", type, "'", ".", WS, "Use", WS,
       "'", "line", "'", ",", WS, "'", "bar", "'", WS, "ou", WS,
       "'", "saldo", "'", "." >>

\* lines 120-193, one call
PlotChartByType ==
    /\ pc = "returned"
    /\ \E yr \in Years, type \in ChartTypes :
          /\ plot_args' = <<yr, type>>
          /\ IF ~(AggregatedKeys \subseteq Range(df_long.columns))
             THEN /\ error' = Raised("KeyError", <<"ano">>)
                  /\ UNCHANGED << base, shown >>
             ELSE /\ base' = Aggregate(df_long.rows, yr)
                  /\ IF ChartFor(type) # None
                     THEN /\ shown' = shown \o ChartFor(type)
                          /\ UNCHANGED error
                     ELSE /\ error' = Raised("ValueError",
                                             InvalidTypeMessage(type))
                          /\ UNCHANGED shown
    /\ pc' = "plotted"
    /\ UNCHANGED loadVars
    /\ UNCHANGED df_long

\* tables a caller can hand to plot_chart_by_type
PlotMonths == {Some(1), Some(2), None}
PlotValues == {100, 250}

PlotRecords ==
    [ ano : Years, mes : PlotMonths, tipo : {"receita", "despesa", "aporte"},
      grupo : {None}, categoria : {<<"x">>}, valor : PlotValues ]

InitPlot ==
    /\ columns = <<>>
    /\ nrows = 0
    /\ head = <<>>
    /\ year = DefaultYear
    /\ pc = "returned"
    /\ mes_cols = <<>>
    /\ meses_siglas = <<>>
    /\ i = 0
    /\ grupo_atual = None
    /\ \E n \in 0..MaxRecs : registros \in [1..n -> PlotRecords]
    /\ labels = <<>>
    /\ origin = <<>>
    /\ valores = <<>>
    /\ df_long = DataFrame(registros)
    /\ error = None
    /\ plot_args = <<>>
    /\ base = NoBase
    /\ shown = <<>>

Next ==
    \/ ReadExcel
    \/ ReadExcelRaises
    \/ RowGroupHeader
    \/ RowIgnored
    \/ RowCategory
    \/ Return

Spec == Init /\ [][Next]_vars

NextPlot == PlotChartByType

SpecPlot == InitPlot /\ [][NextPlot]_vars

\* =====================================================================
\* Properties
\* =====================================================================
NRegs == Len(registros)

\* index of the row scanned last
LastRow == Len(labels) - 1

LabelOfRow(r) == labels[r + 1]

\* labels of the rows the second test of the scan skips
IgnorableLabels == (LABELS_TO_IGNORE \ GroupHeaders) \cup {<<>>}

IsCategoryLabel(l) == l \notin GroupHeaders /\ l \notin IgnorableLabels

\* label of the last group-header row before row r, None if there is none
NearestHeader(r) ==
    LET hs == {j \in 0..(r - 1) : LabelOfRow(j) \in GroupHeaders}
    IN  IF hs = {} THEN None
        ELSE Some(LabelOfRow(CHOOSE j \in hs : \A k \in hs : k <= j))

\* the last scanned row is a category row whose month cells were all read
LastRowIsCategory ==
    /\ labels # <<>>
    /\ IsCategoryLabel(LabelOfRow(LastRow))
    /\ DOMAIN valores = Range(mes_cols)

Present(cell) == cell.t = "num" /\ cell.v # 0

\* positions in mes_cols whose cell of the last row is present and nonzero
NonZeroCols ==
    SelectSeq([j \in 1..Len(mes_cols) |-> j],
              LAMBDA j : Present(valores[mes_cols[j]]))

OriginBefore(a, b) == a[1] < b[1] \/ (a[1] = b[1] /\ a[2] < b[2])

\* ---------------------------------------------------------------- C1
\* C1: every emitted record has a nonzero amount, and a month cell of a
\* category row that is missing or equal to zero is the origin of no record.
C1_AmountNonZero ==
    /\ \A k \in 1..NRegs : registros[k].valor # 0
    /\ LastRowIsCategory =>
          \A j \in 1..Len(mes_cols) :
             (IsNa(valores[mes_cols[j]]) \/ valores[mes_cols[j]] = Num(0)) =>
                \A k \in 1..NRegs : origin[k] # <<LastRow, j>>

\* a category row with a missing cell, a zero cell and an emitted cell
C1_Witness ==
    /\ LastRowIsCategory
    /\ error = None
    /\ \E j \in 1..Len(mes_cols) : valores[mes_cols[j]] = Num(0)
    /\ \E j \in 1..Len(mes_cols) : Present(valores[mes_cols[j]])
    /\ NRegs >= 1

\* ---------------------------------------------------------------- C2
\* C2: the group of every record is the label of the nearest group-header
\* row before the record's row (None if there is none), and its kind is
\* receita iff that label is RECEITA, aporte iff it is APORTES, despesa
\* otherwise.
C2_GroupFromNearestHeader ==
    \A k \in 1..NRegs :
       LET g == NearestHeader(origin[k][1])
       IN  /\ registros[k].grupo = g
           /\ registros[k].tipo \in {"receita", "despesa", "aporte"}
           /\ registros[k].tipo = "receita" <=> g = Some(<<"RECEITA">>)
           /\ registros[k].tipo = "aporte" <=> g = Some(<<"APORTES">>)

\* a contribution record whose header row is not the row right before it,
\* and an expense record emitted before any header
C2_Witness ==
    \/ \E k \in 1..NRegs :
          /\ registros[k].tipo = "aporte"
          /\ origin[k][1] >= 2
          /\ LabelOfRow(origin[k][1] - 1) \notin GroupHeaders
    \/ \E k \in 1..NRegs :
          /\ registros[k].tipo = "receita"
          /\ origin[k][1] >= 2
          /\ LabelOfRow(origin[k][1] - 1) \in IgnorableLabels

\* ---------------------------------------------------------------- C3
\* C3: a step that scans a row whose label is empty or ignorable (and no
\* group header) appends no record and leaves grupo_atual as it was; no
\* record comes from such a row, and no record's category is an ignorable
\* label, a group-header label or the empty string.
C3_NoIgnorableCategory ==
    \A k \in 1..NRegs :
       /\ registros[k].categoria \notin LABELS_TO_IGNORE \cup GroupHeaders
       /\ registros[k].categoria # <<>>
       /\ LabelOfRow(origin[k][1]) \notin IgnorableLabels

C3_IgnorableStep ==
    (Len(labels') = Len(labels) + 1
       /\ labels'[Len(labels')] \in IgnorableLabels)
    => (grupo_atual' = grupo_atual /\ registros' = registros
          /\ error' = error)

C3_IgnorableRowsInert == [][C3_IgnorableStep]_vars /\ []C3_NoIgnorableCategory

\* an ignorable row was scanned after a header row, with records around
C3_Witness ==
    /\ labels # <<>>
    /\ LabelOfRow(LastRow) \in IgnorableLabels
    /\ grupo_atual # None
    /\ LastRow >= 1

\* ---------------------------------------------------------------- C4
\* C4: when a category row has been scanned (its month cells all missing or
\* numeric), the records of that row are the last ones of registros, one per
\* month column whose cell is present and nonzero, in column order, each with
\* the row's label, the current header label, the cell's value and the year
\* argument; records appear in row order and, within a row, column order.
C4_CategoryRowEmits ==
    /\ \A a, b \in 1..NRegs : a < b => OriginBefore(origin[a], origin[b])
    /\ Len(origin) = NRegs
    /\ (LastRowIsCategory /\ error = None) =>
          LET n == Len(NonZeroCols)
          IN  /\ Cardinality({k \in 1..NRegs : origin[k][1] = LastRow}) = n
              /\ \A j \in 1..n :
                    LET k == NRegs - n + j
                    IN  /\ origin[k] = <<LastRow, NonZeroCols[j]>>
                        /\ registros[k].categoria = LabelOfRow(LastRow)
                        /\ registros[k].grupo = NearestHeader(LastRow)
                        /\ registros[k].valor
                              = valores[mes_cols[NonZeroCols[j]]].v
                        /\ registros[k].ano = year

\* two category rows emitted, the last one with a skipped and an emitted cell
C4_Witness ==
    /\ LastRowIsCategory
    /\ error = None
    /\ Len(NonZeroCols) = 1
    /\ Len(mes_cols) = 2
    /\ NRegs = 3
    /\ year # DefaultYear
    /\ grupo_atual # None

\* ---------------------------------------------------------------- C5
\* C5 (as amended): a sheet with fewer than 13 columns is not rejected for
\* its width: every column after the first is scanned as a month column and
\* the records are returned; the load fails only with IndexError on a sheet
\* without rows and with the ValueError of float() on a text cell of a scanned
\* category row.
C5_ShortSheetScanned ==
    (Len(columns) < SliceStop /\ pc # "read") =>
       /\ mes_cols = Tail(columns)
       /\ pc = "raised" =>
             \/ nrows = 0 /\ error[1].exc = "IndexError"
             \/ /\ nrows >= 1
                /\ error[1].exc = "ValueError"
                /\ LastRowIsCategory
                /\ \E c \in DOMAIN valores : valores[c].t = "str"
       /\ nrows = 0 => pc = "raised"
       /\ pc = "returned" => error = None /\ df_long.rows = registros

\* a sheet of three columns was loaded and gave records
C5_Witness ==
    /\ pc = "returned"
    /\ Len(columns) < SliceStop
    /\ Len(columns) = 3
    /\ NRegs >= 2

\* C5 as stated: a sheet with fewer than 13 columns makes the load fail and
\* no records are returned.
C5_ShortSheetFails ==
    (Len(columns) < SliceStop /\ pc \notin {"read", "scan"}) =>
       (pc = "raised" /\ df_long.rows = <<>>)

\* ---------------------------------------------------------------- C8
\* C8: the table the load returns has the six columns ano, mes, tipo, grupo,
\* categoria, valor, in that order, whatever the sheet.
C8_SixColumns == pc = "returned" => df_long.columns = RecordKeys

\* ---------------------------------------------------------------- C9
\* C9: row 0 is not scanned: it sets no group, emits no record and raises
\* nothing.
C9_RowZeroInert ==
    /\ \A k \in 1..NRegs : origin[k][1] >= 1
    /\ Len(labels) = 1 => grupo_atual = None
    /\ ~(pc = "raised" /\ Len(labels) = 1)

\* ---------------------------------------------------------------- C10
\* C10: the month of every record is the value MONTHS_MAP gives to the row-0
\* code of the record's column, in 1..12, and None when the table has no such
\* key; a category row with numeric cells raises nothing and emits a record
\* with month None for each present nonzero cell under an unknown code.
C10_MonthFromTable ==
    /\ \A k \in 1..NRegs :
          LET code == head[mes_cols[origin[k][2]]]
          IN  IF code.t = "str" /\ code.s \in DOMAIN MONTHS_MAP
              THEN /\ registros[k].mes = Some(MONTHS_MAP[code.s])
                   /\ registros[k].mes[1] \in 1..12
              ELSE registros[k].mes = None
    /\ (LastRowIsCategory /\ \A c \in DOMAIN valores : valores[c].t # "str") =>
          /\ error = None
          /\ \A j \in 1..Len(mes_cols) :
                (head[mes_cols[j]] = Txt(<<UnknownCode>>)
                   /\ Present(valores[mes_cols[j]])) =>
                   \E k \in 1..NRegs : /\ origin[k] = <<LastRow, j>>
                                       /\ registros[k].mes = None

\* one row gave a record with month 1 and a record with no month
C10_Witness ==
    /\ error = None
    /\ \E a, b \in 1..NRegs :
          /\ origin[a][1] = origin[b][1]
          /\ registros[a].mes = Some(1)
          /\ registros[b].mes = None

\* ---------------------------------------------------------------- C6
PlotYear == plot_args[1]
PlotType == plot_args[2]

\* the aggregation of plot_chart_by_type ran to its end
Aggregated == pc = "plotted" /\ AggregatedKeys \subseteq Range(df_long.columns)

\* rows of the table of the plotted year, month m and type t
RowsOf(m, t) ==
    {k \in 1..Len(df_long.rows) :
        /\ df_long.rows[k].ano = PlotYear
        /\ df_long.rows[k].mes = Some(m)
        /\ df_long.rows[k].tipo = t}

RECURSIVE Total(_)
Total(ks) ==
    IF ks = {} THEN 0
    ELSE LET k == CHOOSE x \in ks : TRUE
         IN  df_long.rows[k].valor + Total(ks \ {k})

MonthsOfYear ==
    {m \in 1..12 : \E t \in {"receita", "despesa", "aporte"} : RowsOf(m, t) # {}}

SeriesOf(m) ==
    /\ base[m]["receita"] = Total(RowsOf(m, "receita"))
    /\ base[m]["despesa"] = Total(RowsOf(m, "despesa"))
    /\ base[m]["saldo"] = base[m]["receita"] - base[m]["despesa"]

\* C6 (as amended): the aggregated table has one entry for each month that
\* occurs, with a month number, among the records of the requested year, of
\* whatever kind; in each entry receita and despesa are the sums of the
\* amounts of that year, month and kind (0 when there is none) and saldo is
\* receita - despesa; records of other years change nothing, and for a year
\* absent from the records the table has no entry.  The table without
\* columns, which pd.DataFrame gives for no records, is not aggregated: the
\* call raises KeyError.
C6_SparseTable ==
    /\ Aggregated =>
          /\ DOMAIN base = MonthsOfYear
          /\ \A m \in DOMAIN base : SeriesOf(m)
    /\ (pc = "plotted" /\ ~Aggregated) =>
          /\ df_long.rows = <<>>
          /\ error # None
          /\ error[1].exc = "KeyError"
          /\ DOMAIN base = {}

\* income and expense of month 1 summed, negative balance, no other month
C6_Witness ==
    /\ Aggregated
    /\ DOMAIN base = {1}
    /\ base[1]["receita"] > 0
    /\ base[1]["despesa"] > base[1]["receita"]
    /\ base[1]["saldo"] < 0

\* C6 as stated: the aggregated table has an entry for every month 1..12,
\* with the sums of the year, 0 where there is no record.
C6_DenseTable ==
    Aggregated =>
       /\ DOMAIN base = 1..12
       /\ \A m \in DOMAIN base : SeriesOf(m)

\* ---------------------------------------------------------------- C7
\* C7: a call of plot_chart_by_type with type line, bar or saldo raises
\* nothing and calls plt.show() once, for that chart; with any other type it
\* raises ValueError, the message naming the type and the three valid ones,
\* and calls plt.show() never.
C7_TwoOutcomes ==
    pc = "plotted" =>
       IF PlotType \in {"line", "bar", "saldo"}
       THEN error = None /\ shown = <<PlotType>>
       ELSE /\ error # None
            /\ error[1].exc = "ValueError"
            /\ {PlotType, "line", "bar", "saldo"} \subseteq Range(error[1].msg)
            /\ shown = <<>>

=============================================================================
